---- MODULE Spec2Model ----
(***************************************************************************)
(* StatsArray (Project2 test/StatsArray.h): a dynamic array of doubles     *)
(* kept in ascending order, with descriptive statistics computed on it,    *)
(* and the console driver of Project2 test/main.cpp.                       *)
(*                                                                         *)
(* The stored doubles are modelled by small integers (every value of       *)
(* Values is exactly representable, and so are their sums and products);   *)
(* quotients are exact rationals <<num, den>> and square roots are kept    *)
(* symbolic, so floating-point rounding is outside the model.              *)
(* Array indices are 0-based as in the source.                             *)
(***************************************************************************)
EXTENDS Integers, Sequences, FiniteSets, TLC

\* _data, _used, _cap: the private members of StatsArray;
\* last: the record of the latest public call (its arguments and what it returned,
\* threw or wrote);
\* other: a second StatsArray, made and assigned by copying
VARIABLES _data, _used, _cap, last, other

vars == <<_data, _used, _cap, last, other>>

\* ---------------------------------------------------------------- bounds
\* the doubles a caller may pass: the integers -1 .. MaxValue
MaxValue == 1
\* the largest number of stored elements explored
MaxLen == 4
\* the largest cap0 passed to StatsArray(size_t)
MaxCap0 == 3
\* the largest explicit count passed to eraseValue
MaxCount == 2
\* the largest number of stored elements of two buffers explored together
MaxCopyLen == 2
\* the largest number of tokens of an imported file
MaxTokens == 2

Values == (0 - 1) .. MaxValue

\* main.cpp:241 passes SIZE_MAX as the count of eraseValue; the count is only
\* compared with removed, so the largest integer TLC represents stands for it
SIZE_MAX == 2147483647

\* content of a slot of a new double[] that was never written
Uninit == 0 - 2

Max2(a, b) == IF a >= b THEN a ELSE b
Min2(a, b) == IF a <= b THEN a ELSE b

\* No member function reads a slot at an index >= _used before writing it
\* (lowerBound, the shift loops, memcpy, memmove and every statistic stay below
\* _used), so the state keeps Uninit in those slots: arrays that differ only in
\* such slots are one state.
Dead(d, u) == [i \in DOMAIN d |-> IF i < u THEN d[i] ELSE Uninit]

\* the active elements _data[0 .. _used) as a sequence
Elems(d, u) == [i \in 1..u |-> d[i - 1]]

\* ------------------------------------------------------------ construction
\* StatsArray() : _data(nullptr), _used(0), _cap(0)
DefaultCtor ==
    /\ _data = <<>>
    /\ _used = 0
    /\ _cap = 0

\* StatsArray(size_t cap0) : new double[cap0 > 0 ? cap0 : 8], _used(0)
SizedCtor(cap0) ==
    /\ _cap = (IF cap0 > 0 THEN cap0 ELSE 8)
    /\ _data = [i \in 0 .. (IF cap0 > 0 THEN cap0 ELSE 8) - 1 |-> Uninit]
    /\ _used = 0

\* a second StatsArray that is not constructed yet; once it is, ptr tells
\* whether its _data points to storage of its own ("own") or to the array of
\* the first object ("this")
NoObject == [alive |-> FALSE, ptr |-> "own", data |-> <<>>, used |-> 0, cap |-> 0]

\* a StatsArray right after either constructor
Init ==
    /\ \/ DefaultCtor
       \/ \E cap0 \in 0 .. MaxCap0 : SizedCtor(cap0)
    /\ last = [op |-> "ctor"]
    /\ other = NoObject

\* main(): App app{} holds a default-constructed StatsArray
InitApp ==
    /\ DefaultCtor
    /\ last = [op |-> "ctor"]
    /\ other = NoObject

\* ------------------------------------------------------------ private helpers
\* lowerBound(x): binary search for the first index i with _data[i] >= x
\* (mutant) the comparison of the search reversed
RECURSIVE lowerBoundLoopReversed(_, _, _, _)
lowerBoundLoopReversed(d, x, L, R) ==
    IF L < R
    THEN LET M == (L + R) \div 2
         IN  IF d[M] > x THEN lowerBoundLoopReversed(d, x, M + 1, R)
                         ELSE lowerBoundLoopReversed(d, x, L, M)
    ELSE L

\* (mutant) upper-bound search: ties go after the equal elements
RECURSIVE lowerBoundLoopUpper(_, _, _, _)
lowerBoundLoopUpper(d, x, L, R) ==
    IF L < R
    THEN LET M == (L + R) \div 2
         IN  IF d[M] <= x THEN lowerBoundLoopUpper(d, x, M + 1, R)
                          ELSE lowerBoundLoopUpper(d, x, L, M)
    ELSE L

RECURSIVE lowerBoundLoop(_, _, _, _)
lowerBoundLoop(d, x, L, R) ==
    IF L < R
    THEN LET M == (L + R) \div 2
         IN  IF d[M] < x THEN lowerBoundLoop(d, x, M + 1, R)
                         ELSE lowerBoundLoop(d, x, L, M)
    ELSE L

lowerBound(d, u, x) == lowerBoundLoop(d, x, 0, u)

\* growIfNeeded(): the capacity after the call
growNewCap(c) == IF c = 0 THEN 8 ELSE c * 2

\* growIfNeeded(): <<_data, _cap>> after the call; memcpy keeps [0, _used)
growIfNeeded(d, u, c) ==
    IF u < c
    THEN <<d, c>>
    ELSE LET newCap == growNewCap(c)
         IN  <<[i \in 0 .. newCap - 1 |-> IF i < u THEN d[i] ELSE Uninit], newCap>>

\* insertAt(pos, x): grow, memmove the tail one slot right, store x
insertAt(d, u, c, pos, x) ==
    LET g  == growIfNeeded(d, u, c)
        nd == g[1]
    IN  <<[i \in DOMAIN nd |->
              IF i = pos THEN x
              ELSE IF i > pos /\ i <= u THEN nd[i - 1]
              ELSE nd[i]],
          u + 1,
          g[2]>>

\* the inner for loop of eraseValue / eraseAt: _data[i-1] = _data[i], i in (pos, _used)
shiftLeft(d, u, pos) ==
    [i \in DOMAIN d |-> IF i >= pos /\ i + 1 < u THEN d[i + 1] ELSE d[i]]

\* (mutant) the loop stops one removal late: removed <= count
RECURSIVE eraseLoopOneMore(_, _, _, _, _, _)
eraseLoopOneMore(d, u, pos, v, count, removed) ==
    IF pos < u /\ d[pos] = v /\ removed <= count
    THEN eraseLoopOneMore(shiftLeft(d, u, pos), u - 1, pos, v, count, removed + 1)
    ELSE <<d, u, removed>>

\* the while loop of eraseValue: <<_data, _used, removed>> at exit
RECURSIVE eraseLoop(_, _, _, _, _, _)
eraseLoop(d, u, pos, v, count, removed) ==
    IF pos < u /\ d[pos] = v /\ removed < count
    THEN eraseLoop(shiftLeft(d, u, pos), u - 1, pos, v, count, removed + 1)
    ELSE <<d, u, removed>>

\* ------------------------------------------------------------ modifiers
\* insert(x): assert(isfinite(x)); pos = lowerBound(x); insertAt(pos, x)
insert(x) ==
    /\ _used < MaxLen
    /\ LET pos == lowerBound(_data, _used, x)
           r   == insertAt(_data, _used, _cap, pos, x)
       IN  /\ _data' = Dead(r[1], r[2])
           /\ _used' = r[2]
           /\ _cap' = r[3]
           /\ last' = [op |-> "insert", x |-> x, pos |-> pos]
    /\ UNCHANGED other

\* eraseValue(v, count): assert(count >= 1); returns removed
eraseValue(v, count) ==
    /\ count >= 1
    /\ LET pos == lowerBound(_data, _used, v)
           r   == eraseLoop(_data, _used, pos, v, count, 0)
       IN  /\ _data' = Dead(r[1], r[2])
           /\ _used' = r[2]
           /\ last' = [op |-> "eraseValue", v |-> v, count |-> count, removed |-> r[3]]
    /\ UNCHANGED <<_cap, other>>

\* eraseAt(idx): assert(idx < _used)
eraseAt(idx) ==
    /\ idx < _used
    /\ _data' = Dead(shiftLeft(_data, _used, idx), _used - 1)
    /\ _used' = _used - 1
    /\ last' = [op |-> "eraseAt", idx |-> idx]
    /\ UNCHANGED <<_cap, other>>

\* clear(): _used = 0
clear ==
    /\ _used' = 0
    /\ _data' = Dead(_data, 0)
    /\ last' = [op |-> "clear"]
    /\ UNCHANGED <<_cap, other>>

\* ------------------------------------------------------------ copying
\* the array the second object's _data points to
OtherData == IF other.ptr = "this" THEN _data ELSE other.data

\* new double[c] followed by if (u) memcpy(.., d, u * sizeof(double))
copyData(d, u, c) == [i \in 0 .. c - 1 |-> IF i < u THEN d[i] ELSE Uninit]

\* a copy that takes over the source's pointer instead of allocating
copiedFromShallow(d, u, c) ==
    [alive |-> TRUE, ptr |-> "this", data |-> <<>>, used |-> u, cap |-> c]

\* the members of an object copied from the object that has d, u and c:
\* _data(new double[other._cap]), _used(other._used), _cap(other._cap)
copiedFrom(d, u, c) ==
    [alive |-> TRUE, ptr |-> "own", data |-> copyData(d, u, c), used |-> u, cap |-> c]

\* StatsArray other(*this)
CopyCtor ==
    /\ ~other.alive
    /\ other' = copiedFrom(_data, _used, _cap)
    /\ last' = [op |-> "copy"]
    /\ UNCHANGED <<_data, _used, _cap>>

\* to = from with operator=, to and from naming the first object ("this") or
\* the second ("other"); to = to returns at once
Assign(to, from) ==
    /\ other.alive
    /\ last' = [op |-> "assign", to |-> to, from |-> from]
    /\ IF to = from
       THEN UNCHANGED <<_data, _used, _cap, other>>
       ELSE IF to = "other"
       THEN /\ other' = copiedFrom(_data, _used, _cap)
            /\ UNCHANGED <<_data, _used, _cap>>
       ELSE /\ _data' = copyData(OtherData, other.used, other.cap)
            /\ _used' = other.used
            /\ _cap' = other.cap
            /\ other' = [other EXCEPT !.ptr = "own", !.data = OtherData]

\* a modifier of the second object, r being <<_data, _used>> after it, with
\* _cap as third component when the modifier is insert; an array shared with
\* the first object is written in place
OtherCall(op, r) ==
    /\ other' = [other EXCEPT
                     !.data = (IF other.ptr = "this" THEN <<>> ELSE Dead(r[1], r[2])),
                     !.used = r[2],
                     !.cap = (IF op = "other.insert" THEN r[3] ELSE other.cap)]
    /\ _data' = (IF other.ptr = "this" THEN r[1] ELSE _data)
    /\ last' = [op |-> op]
    /\ UNCHANGED <<_used, _cap>>

\* other.insert(x)
OtherInsert(x) ==
    /\ other.alive
    /\ OtherCall("other.insert",
                 insertAt(OtherData, other.used, other.cap,
                          lowerBound(OtherData, other.used, x), x))

\* other.eraseValue(v, count)
OtherEraseValue(v, count) ==
    /\ other.alive
    /\ count >= 1
    /\ OtherCall("other.eraseValue",
                 eraseLoop(OtherData, other.used,
                           lowerBound(OtherData, other.used, v), v, count, 0))

\* other.eraseAt(idx)
OtherEraseAt(idx) ==
    /\ other.alive
    /\ idx < other.used
    /\ OtherCall("other.eraseAt",
                 <<shiftLeft(OtherData, other.used, idx), other.used - 1>>)

\* other.clear()
OtherClear ==
    /\ other.alive
    /\ OtherCall("other.clear", <<OtherData, 0>>)

\* ------------------------------------------------------------ exact numbers
\* A double computed from the stored values is an exact rational <<num, den>>
\* in lowest terms with den > 0.
Abs(a) == IF a < 0 THEN 0 - a ELSE a

RECURSIVE GCD(_, _)
GCD(a, b) == IF b = 0 THEN a ELSE GCD(b, a % b)

Rat(n, d) ==
    LET g  == GCD(Abs(n), Abs(d))
        sg == IF d < 0 THEN 0 - 1 ELSE 1
    IN  <<(sg * n) \div g, (sg * d) \div g>>

\* (double)x of a stored value x
Dbl(x) == <<x, 1>>

\* common factors are cancelled before multiplying, to keep the integers small
RAdd(a, b) ==
    LET g == GCD(a[2], b[2])
    IN  Rat(a[1] * (b[2] \div g) + b[1] * (a[2] \div g), (a[2] \div g) * b[2])
RNeg(a) == <<0 - a[1], a[2]>>
RSub(a, b) == RAdd(a, RNeg(b))
RMul(a, b) ==
    LET g1 == GCD(Abs(a[1]), b[2])
        g2 == GCD(Abs(b[1]), a[2])
    IN  <<(a[1] \div g1) * (b[1] \div g2), (a[2] \div g2) * (b[2] \div g1)>>
\* 1 / b, b # 0
RInv(b) == IF b[1] < 0 THEN <<0 - b[2], 0 - b[1]>> ELSE <<b[2], b[1]>>
\* a / b, b # 0
RDiv(a, b) == RMul(a, RInv(b))
RAbs(a) == <<Abs(a[1]), a[2]>>
RLt(a, b) == a[1] * b[2] < b[1] * a[2]
RLe(a, b) == a[1] * b[2] <= b[1] * a[2]
Zero == Dbl(0)

\* sqrt, and the quotients and products that involve one, stay symbolic terms
Sqrt(a) == [f |-> "sqrt", a |-> a]
Quot(a, b) == [f |-> "div", a |-> a, b |-> b]
Prod(a, b) == [f |-> "mul", a |-> a, b |-> b]
\* 0.0 / 0.0
NaN == [f |-> "nan"]

\* ------------------------------------------------------------ outcomes of a call
NoVal == <<>>

\* the call returned v
Value(v) == [kind |-> "value", what |-> "", need |-> 0, val |-> v]

\* throw DatasetEmptyException("Dataset is empty.")
DatasetEmpty ==
    [kind |-> "DatasetEmptyException", what |-> "Dataset is empty.", need |-> 0, val |-> NoVal]

\* throw InsufficientDataException(what + " requires at least " + need + " value(s).")
InsufficientData(what, need) ==
    [kind |-> "InsufficientDataException", what |-> what, need |-> need, val |-> NoVal]

\* throw InsufficientDataException("Coefficient of Variation undefined when mean is 0.")
CVUndefined ==
    [kind |-> "InsufficientDataException",
     what |-> "Coefficient of Variation undefined when mean is 0.", need |-> 0, val |-> NoVal]

\* a failed assert(): the program aborts
AssertFailed(what) == [kind |-> "abort", what |-> what, need |-> 0, val |-> NoVal]

\* requireSize returned without throwing
Passed == [kind |-> "passed", what |-> "", need |-> 0, val |-> NoVal]

IsValue(o) == o.kind = "value"

\* (mutant) the two tests of requireSize in the other order
requireSizeNeedFirst(u, need, what) ==
    IF u < need THEN InsufficientData(what, need)
    ELSE IF u = 0 THEN DatasetEmpty
    ELSE Passed

\* requireSize(need, what)
requireSize(u, need, what) ==
    IF u = 0 THEN DatasetEmpty
    ELSE IF u < need THEN InsufficientData(what, need)
    ELSE Passed

\* ------------------------------------------------------------ statistics
\* Each statistic is a function of the array d and the size u (the object is
\* const in all of them) and yields the outcome of the call.  A statistic
\* "f" that goes on after a call it makes is split in two: f makes the call and
\* fOf takes its outcome, so that an exception of the call propagates.

\* the statements after a requireSize call: skipped when it threw
Guard(e, rest) == IF e # Passed THEN e ELSE rest

\* the accumulation loops "for (i = 0; i < _used; ++i) s += t[i]", s being the
\* long double accumulator and t the terms by index
RECURSIVE Accumulate(_, _, _, _)
Accumulate(t, i, u, s) ==
    IF i < u THEN Accumulate(t, i + 1, u, RAdd(s, t[i])) ELSE s

\* d * d
Sq(a) == RMul(a, a)

\* the terms (_data[i] - mu)^2 of the loops of variance, skewness and kurtosis
sqDeviations(d, u, mu) == [i \in 0 .. u - 1 |-> Sq(RSub(Dbl(d[i]), mu))]

min(d, u) == Guard(requireSize(u, 1, "Minimum"), Value(Dbl(d[0])))

max(d, u) == Guard(requireSize(u, 1, "Maximum"), Value(Dbl(d[u - 1])))

range(d, u) ==
    Guard(requireSize(u, 1, "Range"), Value(RSub(Dbl(d[u - 1]), Dbl(d[0]))))

sum(d, u) ==
    Guard(requireSize(u, 1, "Sum"),
          Value(Accumulate([i \in 0 .. u - 1 |-> Dbl(d[i])], 0, u, Zero)))

meanOf(s, u) == IF ~IsValue(s) THEN s ELSE Value(RDiv(s.val, Dbl(u)))

mean(d, u) == Guard(requireSize(u, 1, "Mean"), meanOf(sum(d, u), u))

\* the odd/even rule of median(): n = _used, m = n / 2
medianOf(d, n, m) ==
    IF n % 2 # 0 THEN Value(Dbl(d[m]))
    ELSE Value(RDiv(RAdd(Dbl(d[m - 1]), Dbl(d[m])), Dbl(2)))

median(d, u) == Guard(requireSize(u, 1, "Median"), medianOf(d, u, u \div 2))

\* the inner while of the run scans: first j > i with j = u or d[j] # d[i]
RECURSIVE runEnd(_, _, _, _)
runEnd(d, u, i, j) == IF j < u /\ d[j] = d[i] THEN runEnd(d, u, i, j + 1) ELSE j

\* first loop of modes(): the longest run length
RECURSIVE modesBest(_, _, _, _)
modesBest(d, u, i, best) ==
    IF i < u
    THEN LET j == runEnd(d, u, i, i + 1)
         IN  modesBest(d, u, j, IF j - i > best THEN j - i ELSE best)
    ELSE best

\* second loop of modes(): the values whose run length is best
RECURSIVE modesCollect(_, _, _, _, _)
modesCollect(d, u, i, best, out) ==
    IF i < u
    THEN LET j == runEnd(d, u, i, i + 1)
         IN  modesCollect(d, u, j, best, IF j - i = best THEN Append(out, d[i]) ELSE out)
    ELSE out

\* (mutant) modes() without the "no mode" case
modesOfAlways(d, u, best) == Value(modesCollect(d, u, 0, best, <<>>))

\* modes() after its first loop: all values unique means no mode
modesOf(d, u, best) ==
    IF best <= 1 THEN Value(<<>>) ELSE Value(modesCollect(d, u, 0, best, <<>>))

modes(d, u) == Guard(requireSize(u, 1, "Mode(s)"), modesOf(d, u, modesBest(d, u, 0, 0)))

\* the three asserts of variance(); the values are exact, so the -1e-12
\* tolerance lets through exactly ans >= 0
varianceChecked(u, sample, ans) ==
    IF RLt(ans, Zero) THEN AssertFailed("ans >= -1e-12L")
    ELSE IF ~sample /\ u = 1 /\ ans # Zero THEN AssertFailed("ans == 0.0L")
    ELSE Value(ans)

\* ans = (denom > 0 ? ss / denom : 0)
varianceAns(ss, denom) == IF denom > 0 THEN RDiv(ss, Dbl(denom)) ELSE Zero

varianceOf(d, u, sample, mu) ==
    IF ~IsValue(mu) THEN mu
    ELSE varianceChecked(u, sample,
             varianceAns(Accumulate(sqDeviations(d, u, mu.val), 0, u, Zero),
                         IF sample THEN u - 1 ELSE u))

variance(d, u, sample) ==
    Guard(IF sample THEN requireSize(u, 2, "Variance (sample)")
                    ELSE requireSize(u, 1, "Variance (population)"),
          varianceOf(d, u, sample, mean(d, u)))

stdevOf(v) == IF ~IsValue(v) THEN v ELSE Value(Sqrt(v.val))

stdev(d, u, sample) == stdevOf(variance(d, u, sample))

midrangeOf(lo, hi) ==
    IF ~IsValue(lo) THEN lo
    ELSE IF ~IsValue(hi) THEN hi
    ELSE Value(RDiv(RAdd(lo.val, hi.val), Dbl(2)))

midrange(d, u) == Guard(requireSize(u, 1, "Midrange"), midrangeOf(min(d, u), max(d, u)))

\* quartiles()::H::subMed(a, L, R): median of a[L .. R], len = R - L + 1
subMedOf(a, len, mid) ==
    IF len % 2 # 0 THEN Dbl(a[mid])
    ELSE RDiv(RAdd(Dbl(a[mid - 1]), Dbl(a[mid])), Dbl(2))

subMed(a, L, R) == subMedOf(a, R - L + 1, L + (R - L + 1) \div 2)

\* the two asserts of quartiles() and its return; the values are multiples of
\* 1/2, so the 1e-12 tolerance lets through exactly q1 <= q2 <= q3 and
\* _data[0] <= q1, q3 <= _data[_used - 1]
quartilesChecked(d, u, q1, q2, q3) ==
    IF ~(RLe(q1, q2) /\ RLe(q2, q3))
    THEN AssertFailed("q1 <= q2 + 1e-12 && q2 <= q3 + 1e-12")
    ELSE IF ~(RLe(Dbl(d[0]), q1) /\ RLe(q3, Dbl(d[u - 1])))
    THEN AssertFailed("q1 >= _data[0] - 1e-12 && q3 <= _data[_used - 1] + 1e-12")
    ELSE Value(<<q1, q2, q3>>)

\* (mutant) quartiles() whose upper half keeps the median element of an odd n
quartilesOfInclusive(d, n, m, q2) ==
    IF ~IsValue(q2) THEN q2
    ELSE quartilesChecked(d, n, subMed(d, 0, m - 1), q2.val, subMed(d, m, n - 1))

\* (mutant) quartiles() with the lower and the upper half exchanged
quartilesOfSwapped(d, n, m, q2) ==
    IF ~IsValue(q2) THEN q2
    ELSE quartilesChecked(d, n,
             IF n % 2 = 0 THEN subMed(d, m, n - 1) ELSE subMed(d, m + 1, n - 1),
             q2.val,
             subMed(d, 0, m - 1))

\* quartiles() after q2 = median(): n = _used, m = n / 2
quartilesOf(d, n, m, q2) ==
    IF ~IsValue(q2) THEN q2
    ELSE quartilesChecked(d, n,
             subMed(d, 0, m - 1),
             q2.val,
             IF n % 2 = 0 THEN subMed(d, m, n - 1) ELSE subMed(d, m + 1, n - 1))

quartiles(d, u) ==
    Guard(requireSize(u, 2, "Quartiles"), quartilesOf(d, u, u \div 2, median(d, u)))

\* q3 - q1 of a quartile tuple
iqrOf(q) == IF ~IsValue(q) THEN q ELSE Value(RSub(q.val[3], q.val[1]))

iqr(d, u) == Guard(requireSize(u, 2, "Interquartile Range"), iqrOf(quartiles(d, u)))

\* the loop of outliers(): the stored values below lo or above hi
RECURSIVE outliersLoop(_, _, _, _, _)
outliersLoop(d, u, i, lo, hi) ==
    IF i >= u THEN <<>>
    ELSE (IF RLt(Dbl(d[i]), lo) \/ RLt(hi, Dbl(d[i])) THEN <<d[i]>> ELSE <<>>)
         \o outliersLoop(d, u, i + 1, lo, hi)

\* lo = q1 - w, hi = q3 + w
outliersFenced(d, u, q1, q3, w) ==
    Value(outliersLoop(d, u, 0, RSub(q1, w), RAdd(q3, w)))

\* w = 1.5 * (q3 - q1)
outliersOf(d, u, q) ==
    IF ~IsValue(q) THEN q
    ELSE outliersFenced(d, u, q.val[1], q.val[3], RMul(<<3, 2>>, RSub(q.val[3], q.val[1])))

outliers(d, u) == Guard(requireSize(u, 2, "Outliers"), outliersOf(d, u, quartiles(d, u)))

sumSquares(d, u) ==
    Guard(requireSize(u, 1, "Sum of Squares"),
          Value(Accumulate([i \in 0 .. u - 1 |-> Sq(Dbl(d[i]))], 0, u, Zero)))

meanAbsDeviationOf(d, u, mu) ==
    IF ~IsValue(mu) THEN mu
    ELSE Value(RDiv(Accumulate([i \in 0 .. u - 1 |-> RAbs(RSub(Dbl(d[i]), mu.val))],
                               0, u, Zero),
                    Dbl(u)))

meanAbsDeviation(d, u) ==
    Guard(requireSize(u, 1, "Mean Absolute Deviation"), meanAbsDeviationOf(d, u, mean(d, u)))

rmsOf(sq, u) == IF ~IsValue(sq) THEN sq ELSE Value(Sqrt(RDiv(sq.val, Dbl(u))))

rms(d, u) == Guard(requireSize(u, 1, "Root Mean Square"), rmsOf(sumSquares(d, u), u))

semOf(sd, u) == IF ~IsValue(sd) THEN sd ELSE Value(Quot(sd.val, Sqrt(Dbl(u))))

sem(d, u, sample) ==
    Guard(IF sample THEN requireSize(u, 2, "Standard Error of Mean (sample)")
                    ELSE requireSize(u, 1, "Standard Error of Mean (population)"),
          semOf(stdev(d, u, sample), u))

\* g1 = (m3 / n) / (s * s * s) with s = sqrt(s2); s * s * s is 0 exactly when
\* every deviation is 0, and then g1 is 0.0 / 0.0
skewnessG1(n, m3, s2, s) ==
    IF s2 = Zero THEN NaN ELSE Quot(RDiv(m3, Dbl(n)), Prod(Prod(s, s), s))

\* the return statements of skewness()
skewnessScaled(n, sample, g1) ==
    IF g1 = NaN THEN Value(NaN)
    ELSE IF sample THEN Value(Prod(Quot(Sqrt(Dbl(n * (n - 1))), Dbl(n - 2)), g1))
    ELSE Value(g1)

\* s2 = m2 / (n - 1) for a sample, m2 / n for a population
skewnessS2(n, sample, m2) == IF sample THEN RDiv(m2, Dbl(n - 1)) ELSE RDiv(m2, Dbl(n))

skewnessMoments(n, sample, m3, s2) ==
    skewnessScaled(n, sample, skewnessG1(n, m3, s2, Sqrt(s2)))

skewnessOf(d, u, sample, mu) ==
    IF ~IsValue(mu) THEN mu
    ELSE skewnessMoments(u, sample,
             Accumulate([i \in 0 .. u - 1 |->
                            RMul(Sq(RSub(Dbl(d[i]), mu.val)), RSub(Dbl(d[i]), mu.val))],
                        0, u, Zero),
             skewnessS2(u, sample, Accumulate(sqDeviations(d, u, mu.val), 0, u, Zero)))

skewness(d, u, sample) ==
    Guard(IF sample THEN requireSize(u, 3, "Skewness (sample)")
                    ELSE requireSize(u, 1, "Skewness (population)"),
          skewnessOf(d, u, sample, mean(d, u)))

\* term1 of kurtosis() and kurtosisExcess(); ss is s * s, and with
\* z = (x - mu) / s, z * z * z * z is (x - mu)^4 / (s * s)^2 exactly
kurtosisTerm1(d, n, mu, ss) ==
    RMul(RDiv(Dbl(n * (n + 1)), Dbl((n - 1) * (n - 2) * (n - 3))),
         Accumulate([i \in 0 .. n - 1 |-> RDiv(Sq(Sq(RSub(Dbl(d[i]), mu))), Sq(ss))],
                    0, n, Zero))

\* term2 of kurtosisExcess()
kurtosisTerm2(n) == RDiv(Dbl(3 * (n - 1) * (n - 1)), Dbl((n - 2) * (n - 3)))

\* s * s = s2 / (n - 1), s2 the sum of the squared deviations
kurtosisSS(d, n, mu) == RDiv(Accumulate(sqDeviations(d, n, mu), 0, n, Zero), Dbl(n - 1))

\* kurtosis() from "if (s == 0.0L) return 0.0;" on
kurtosisFrom(d, n, mu, ss) ==
    IF ss = Zero THEN Value(Zero) ELSE Value(kurtosisTerm1(d, n, mu, ss))

kurtosisOf(d, u, mu) ==
    IF ~IsValue(mu) THEN mu ELSE kurtosisFrom(d, u, mu.val, kurtosisSS(d, u, mu.val))

kurtosis(d, u) ==
    Guard(requireSize(u, 4, "Kurtosis Excel term1"), kurtosisOf(d, u, mean(d, u)))

\* (mutant) kurtosisExcess() returning term1 without subtracting term2
kurtosisExcessFromTerm1(d, n, mu, ss) ==
    IF ss = Zero THEN Value(Zero) ELSE Value(kurtosisTerm1(d, n, mu, ss))

\* kurtosisExcess() from "if (s == 0.0L) return 0.0;" on
kurtosisExcessFrom(d, n, mu, ss) ==
    IF ss = Zero THEN Value(Zero)
    ELSE Value(RSub(kurtosisTerm1(d, n, mu, ss), kurtosisTerm2(n)))

kurtosisExcessOf(d, u, mu) ==
    IF ~IsValue(mu) THEN mu ELSE kurtosisExcessFrom(d, u, mu.val, kurtosisSS(d, u, mu.val))

kurtosisExcess(d, u) ==
    Guard(requireSize(u, 4, "Kurtosis Excess Excel"), kurtosisExcessOf(d, u, mean(d, u)))

\* return stdev(sample) / mu
coefficientOfVariationQuot(sd, mu) ==
    IF ~IsValue(sd) THEN sd ELSE Value(Quot(sd.val, mu))

\* coefficientOfVariation() from "double mu = mean()" on
coefficientOfVariationOf(d, u, sample, mu) ==
    IF ~IsValue(mu) THEN mu
    ELSE IF mu.val = Zero THEN CVUndefined
    ELSE coefficientOfVariationQuot(stdev(d, u, sample), mu.val)

coefficientOfVariation(d, u, sample) ==
    Guard(requireSize(u, 1, "Coefficient of Variation"),
          coefficientOfVariationOf(d, u, sample, mean(d, u)))

relativeStdDeviationOf(cv) == IF ~IsValue(cv) THEN cv ELSE Value(Prod(Dbl(100), cv.val))

relativeStdDeviation(d, u, sample) ==
    relativeStdDeviationOf(coefficientOfVariation(d, u, sample))

\* (mutant) the loop resumes one element past the end of the run
RECURSIVE frequencyLoopSkip(_, _, _)
frequencyLoopSkip(d, u, i) ==
    IF i < u
    THEN LET j == runEnd(d, u, i, i + 1)
         IN  <<<<d[i], j - i>>>> \o frequencyLoopSkip(d, u, j + 1)
    ELSE <<>>

\* the loop of frequencyTable(): one <<value, count>> pair per run
RECURSIVE frequencyLoop(_, _, _)
frequencyLoop(d, u, i) ==
    IF i < u
    THEN LET j == runEnd(d, u, i, i + 1)
         IN  <<<<d[i], j - i>>>> \o frequencyLoop(d, u, j)
    ELSE <<>>

frequencyTable(d, u) ==
    Guard(requireSize(u, 1, "Frequency Table"), Value(frequencyLoop(d, u, 0)))

\* the statistic whose requireSize call passes the label what
LabelOwner(what) ==
    CASE what = "Minimum" -> "min"
      [] what = "Maximum" -> "max"
      [] what = "Range" -> "range"
      [] what = "Sum" -> "sum"
      [] what = "Mean" -> "mean"
      [] what = "Median" -> "median"
      [] what = "Mode(s)" -> "modes"
      [] what \in {"Variance (sample)", "Variance (population)"} -> "variance"
      [] what = "Midrange" -> "midrange"
      [] what = "Quartiles" -> "quartiles"
      [] what = "Interquartile Range" -> "iqr"
      [] what = "Outliers" -> "outliers"
      [] what = "Sum of Squares" -> "sumSquares"
      [] what = "Mean Absolute Deviation" -> "meanAbsDeviation"
      [] what = "Root Mean Square" -> "rms"
      [] what \in {"Standard Error of Mean (sample)",
                   "Standard Error of Mean (population)"} -> "sem"
      [] what \in {"Skewness (sample)", "Skewness (population)"} -> "skewness"
      [] what = "Kurtosis Excel term1" -> "kurtosis"
      [] what = "Kurtosis Excess Excel" -> "kurtosisExcess"
      [] what = "Coefficient of Variation" -> "coefficientOfVariation"
      [] what = "Frequency Table" -> "frequencyTable"
      [] what = "Print All" -> "printAll"
      [] what = "Write All to File" -> "writeAllToFile"
      [] OTHER -> "none"

\* ------------------------------------------------------------ report
\* "fixed << setprecision(2) << perc" with perc = 100.0 * count / total:
\* the percentage in hundredths, rounded to nearest
percent2(count, total) == (2 * 10000 * count + total) \div (2 * total)

\* the rows of the frequency table section of printAll: value, count, percentage
frequencyRowsOf(ft, total) ==
    IF ~IsValue(ft) THEN ft
    ELSE Value([k \in 1 .. Len(ft.val) |->
                   <<ft.val[k][1], ft.val[k][2], percent2(ft.val[k][2], total)>>])

frequencyRows(d, u) == frequencyRowsOf(frequencyTable(d, u), u)

modeName(sample) == IF sample THEN "sample" ELSE "population"

\* the statements of printAll in order, each with the label it writes and the
\* outcome of the call that produces its value; the IQR line takes q3 - q1 of
\* the tuple the quartiles line obtained
reportItems(d, u, sample) ==
    << <<"DATA (sorted, n=", Value(<<u, Elems(d, u)>>)>>,
       <<"Min: ", min(d, u)>>,
       <<"Max: ", max(d, u)>>,
       <<"Range: ", range(d, u)>>,
       <<"Sum: ", sum(d, u)>>,
       <<"Mean: ", mean(d, u)>>,
       <<"Median: ", median(d, u)>>,
       <<"Mode(s): ", modes(d, u)>>,
       <<<<"Variance (", modeName(sample), "): ">>, variance(d, u, sample)>>,
       <<<<"Std Dev (", modeName(sample), "): ">>, stdev(d, u, sample)>>,
       <<"Midrange: ", midrange(d, u)>>,
       <<"Quartiles (Q1,Q2,Q3): ", quartiles(d, u)>>,
       <<"IQR: ", iqrOf(quartiles(d, u))>>,
       <<"Outliers (Tukey +/- 1.5*IQR): ", outliers(d, u)>>,
       <<"Sum of Squares: ", sumSquares(d, u)>>,
       <<"Mean Abs Deviation: ", meanAbsDeviation(d, u)>>,
       <<"RMS: ", rms(d, u)>>,
       <<"SEM: ", sem(d, u, sample)>>,
       <<"Skewness: ", skewness(d, u, sample)>>,
       <<"Kurtosis (Pearson): ", kurtosis(d, u)>>,
       <<"Kurtosis Excess: ", kurtosisExcess(d, u)>>,
       <<"Coefficient of Variation: ", coefficientOfVariation(d, u, sample)>>,
       <<"Relative Std Dev (%): ", relativeStdDeviation(d, u, sample)>>,
       <<"Frequency Table", frequencyRows(d, u)>> >>

\* the index of the first statement whose call throws, Len(items) + 1 if none
firstThrow(items) ==
    LET bad == {k \in 1 .. Len(items) : ~IsValue(items[k][2])}
    IN  IF bad = {} THEN Len(items) + 1
        ELSE CHOOSE k \in bad : \A j \in bad : k <= j

\* the statements before stop write their lines; statement stop throws
printUpTo(items, stop) ==
    [outcome |-> IF stop > Len(items) THEN Value(NoVal) ELSE items[stop][2],
     out |-> [k \in 1 .. stop - 1 |-> <<items[k][1], items[k][2].val>>]]

\* printAll after its requireSize
printGuarded(e, items) ==
    IF e # Passed THEN [outcome |-> e, out |-> <<>>]
    ELSE printUpTo(items, firstThrow(items))

\* printAll(os, sample): [outcome, out], out being the lines written to os
\* before the call returned or threw
printAll(d, u, sample) ==
    printGuarded(requireSize(u, 1, "Print All"), reportItems(d, u, sample))

\* writeAllToFile after its requireSize: p is the outcome of printAll(fout, sample)
writeGuarded(e, canOpen, p) ==
    IF e # Passed THEN [outcome |-> e, out |-> <<>>]
    ELSE IF ~canOpen THEN [outcome |-> Value(FALSE), out |-> <<>>]
    ELSE IF ~IsValue(p.outcome) THEN p
    ELSE [outcome |-> Value(TRUE), out |-> p.out]

\* writeAllToFile(path, sample): canOpen tells whether ofstream fout(path) opened;
\* out is what the file received
writeAllToFile(d, u, sample, canOpen) ==
    writeGuarded(requireSize(u, 1, "Write All to File"), canOpen, printAll(d, u, sample))

\* ------------------------------------------------------------ statistic calls
\* (mutant) a statistic that drops the last element while it computes
CallPops(op, args, outcome, out) ==
    /\ last' = [op |-> op, args |-> args, outcome |-> outcome, out |-> out]
    /\ _used' = (IF _used > 0 THEN _used - 1 ELSE 0)
    /\ _data' = Dead(_data, IF _used > 0 THEN _used - 1 ELSE 0)
    /\ UNCHANGED <<_cap, other>>

\* a call of a const member function: the members are left alone and the call's
\* arguments, its outcome and its output are recorded
Call(op, args, outcome, out) ==
    /\ last' = [op |-> op, args |-> args, outcome |-> outcome, out |-> out]
    /\ UNCHANGED <<_data, _used, _cap, other>>

\* a call of printAll or writeAllToFile, p being its outcome and output
CallReport(op, args, p) == Call(op, args, p.outcome, p.out)

DoMin == Call("min", <<>>, min(_data, _used), <<>>)
DoMax == Call("max", <<>>, max(_data, _used), <<>>)
DoRange == Call("range", <<>>, range(_data, _used), <<>>)
DoSum == Call("sum", <<>>, sum(_data, _used), <<>>)
DoMean == Call("mean", <<>>, mean(_data, _used), <<>>)
DoMedian == Call("median", <<>>, median(_data, _used), <<>>)
DoModes == Call("modes", <<>>, modes(_data, _used), <<>>)
DoVariance == \E sample \in BOOLEAN :
    Call("variance", <<sample>>, variance(_data, _used, sample), <<>>)
DoStdev == \E sample \in BOOLEAN :
    Call("stdev", <<sample>>, stdev(_data, _used, sample), <<>>)
DoMidrange == Call("midrange", <<>>, midrange(_data, _used), <<>>)
DoQuartiles == Call("quartiles", <<>>, quartiles(_data, _used), <<>>)
DoIqr == Call("iqr", <<>>, iqr(_data, _used), <<>>)
DoOutliers == Call("outliers", <<>>, outliers(_data, _used), <<>>)
DoSumSquares == Call("sumSquares", <<>>, sumSquares(_data, _used), <<>>)
DoMeanAbsDeviation == Call("meanAbsDeviation", <<>>, meanAbsDeviation(_data, _used), <<>>)
DoRms == Call("rms", <<>>, rms(_data, _used), <<>>)
DoSem == \E sample \in BOOLEAN :
    Call("sem", <<sample>>, sem(_data, _used, sample), <<>>)
DoSkewness == \E sample \in BOOLEAN :
    Call("skewness", <<sample>>, skewness(_data, _used, sample), <<>>)
DoKurtosis == Call("kurtosis", <<>>, kurtosis(_data, _used), <<>>)
DoKurtosisExcess == Call("kurtosisExcess", <<>>, kurtosisExcess(_data, _used), <<>>)
DoCoefficientOfVariation == \E sample \in BOOLEAN :
    Call("coefficientOfVariation", <<sample>>,
         coefficientOfVariation(_data, _used, sample), <<>>)
DoRelativeStdDeviation == \E sample \in BOOLEAN :
    Call("relativeStdDeviation", <<sample>>,
         relativeStdDeviation(_data, _used, sample), <<>>)
DoFrequencyTable == Call("frequencyTable", <<>>, frequencyTable(_data, _used), <<>>)
DoPrintAll == \E sample \in BOOLEAN :
    CallReport("printAll", <<sample>>, printAll(_data, _used, sample))
DoWriteAllToFile == \E sample \in BOOLEAN, canOpen \in BOOLEAN :
    CallReport("writeAllToFile", <<sample, canOpen>>,
               writeAllToFile(_data, _used, sample, canOpen))

DoInsert == \E x \in Values : insert(x)
DoEraseValue == \E v \in Values, count \in (1 .. MaxCount) \cup {SIZE_MAX} : eraseValue(v, count)
DoEraseAt == \E idx \in 0 .. MaxLen - 1 : eraseAt(idx)
DoClear == clear

NextBuf == DoInsert \/ DoEraseValue \/ DoEraseAt \/ DoClear

NextStat ==
    \/ DoMin \/ DoMax \/ DoRange \/ DoSum \/ DoMean \/ DoMedian \/ DoModes
    \/ DoVariance \/ DoStdev \/ DoMidrange \/ DoQuartiles \/ DoIqr \/ DoOutliers
    \/ DoSumSquares \/ DoMeanAbsDeviation \/ DoRms \/ DoSem \/ DoSkewness
    \/ DoKurtosis \/ DoKurtosisExcess \/ DoCoefficientOfVariation
    \/ DoRelativeStdDeviation \/ DoFrequencyTable
NextReport == DoPrintAll \/ DoWriteAllToFile

Next == NextBuf \/ NextStat \/ NextReport

\* a buffer built by either constructor and driven through its modifiers
SpecBuf == Init /\ [][NextBuf]_vars

\* the console program's buffer under every public operation
Spec == InitApp /\ [][Next]_vars

DoAssign == \E to \in {"this", "other"}, from \in {"this", "other"} : Assign(to, from)
DoThisInsert == \E x \in Values : _used < MaxCopyLen /\ insert(x)
DoOtherInsert == \E x \in Values : other.used < MaxCopyLen /\ OtherInsert(x)
DoOtherEraseValue ==
    \E v \in Values, count \in (1 .. MaxCount) \cup {SIZE_MAX} : OtherEraseValue(v, count)
DoOtherEraseAt == \E idx \in 0 .. MaxCopyLen - 1 : OtherEraseAt(idx)

NextCopy ==
    \/ DoThisInsert \/ DoEraseValue \/ DoEraseAt \/ DoClear
    \/ CopyCtor \/ DoAssign
    \/ DoOtherInsert \/ DoOtherEraseValue \/ DoOtherEraseAt \/ OtherClear

\* a buffer built by either constructor, a second one copied from it, and both
\* driven through copy assignment and their modifiers
SpecCopy == Init /\ [][NextCopy]_vars

\* ------------------------------------------------------------ file import
\* A whitespace-separated token of the file, described by what strtod finds
\* at its start: lead "number" is a decimal number of value v in the range of
\* double, "huge" one whose magnitude is out of that range, "inf" and "nan"
\* the spellings strtod accepts for infinity and not-a-number, "text"
\* anything no conversion starts with; rest tells whether characters follow
\* what strtod converts ("12abc").
Tokens ==
    {[lead |-> "number", v |-> x, rest |-> r] : x \in Values, r \in BOOLEAN}
        \cup {[lead |-> k, v |-> 0, rest |-> FALSE] : k \in {"huge", "inf", "nan"}}
        \cup {[lead |-> "text", v |-> 0, rest |-> TRUE]}

\* the files of at most MaxTokens tokens
TokenFiles == UNION {[1 .. n -> Tokens] : n \in 0 .. MaxTokens}

\* the double strtod returns: finite of value v, infinite or not-a-number
Finite(v) == [cls |-> "finite", v |-> v]
Infinite == [cls |-> "inf", v |-> 0]
NotANumber == [cls |-> "nan", v |-> 0]

\* strtod(cstr, &endp) after errno = 0: the value returned, whether endp moved
\* past cstr, and whether errno is ERANGE afterwards
strtod(token) ==
    [v |-> CASE token.lead = "number" -> Finite(token.v)
             [] token.lead = "huge" -> Infinite
             [] token.lead = "inf" -> Infinite
             [] token.lead = "nan" -> NotANumber
             [] OTHER -> Finite(0),
     moved |-> token.lead # "text",
     erange |-> token.lead = "huge"]

\* the state of the import loop: the buffer, the counter and the arguments
\* insert was called with; aborted when assert(isfinite(x)) failed in insert
ImportState(d, u, c, inserted, calls, aborted) ==
    [data |-> d, used |-> u, cap |-> c, inserted |-> inserted, calls |-> calls,
     aborted |-> aborted]

\* app.arr.insert(v); ++inserted; on the loop state st, r = insertAt(pos, v)
importInsert(st, v, r) ==
    IF v.cls # "finite"
    THEN ImportState(st.data, st.used, st.cap, st.inserted, Append(st.calls, v), TRUE)
    ELSE ImportState(r[1], r[2], r[3], st.inserted + 1, Append(st.calls, v), FALSE)

\* the body of while (fin >> token), p = strtod(token):
\* if (endp != cstr && errno == 0) { app.arr.insert(v); ++inserted; }
importToken(st, token, p) ==
    IF p.moved /\ ~p.erange
    THEN importInsert(st, p.v,
             insertAt(st.data, st.used, st.cap,
                      lowerBound(st.data, st.used, p.v.v), p.v.v))
    ELSE st

\* while (fin >> token) from token i on
RECURSIVE importLoop(_, _, _)
importLoop(tokens, i, st) ==
    IF i > Len(tokens) \/ st.aborted THEN st
    ELSE importLoop(tokens, i + 1, importToken(st, tokens[i], strtod(tokens[i])))

\* the program was ended by a failed assertion
Aborted == last.op = "import" /\ last.outcome.kind = "abort"

\* the members and the record of the call after the import loop ended in st
ImportDone(tokens, st) ==
    /\ _data' = Dead(st.data, st.used)
    /\ _used' = st.used
    /\ _cap' = st.cap
    /\ last' = [op |-> "import", tokens |-> tokens, calls |-> st.calls,
                outcome |-> IF st.aborted THEN AssertFailed("isfinite(x)")
                            ELSE Value(st.inserted)]
    /\ UNCHANGED other

\* screenInsertMenu, option C, on a file that opens and holds tokens
ImportFile(tokens) ==
    /\ ~Aborted
    /\ _used + Len(tokens) <= MaxLen
    /\ ImportDone(tokens,
                  importLoop(tokens, 1, ImportState(_data, _used, _cap, 0, <<>>, FALSE)))

\* screenInsertMenu, option C, on a path that cannot be opened
ImportMissingFile ==
    /\ ~Aborted
    /\ last' = [op |-> "import failed"]
    /\ UNCHANGED <<_data, _used, _cap, other>>

DoImportFile == \E tokens \in TokenFiles : ImportFile(tokens)
DoImportClear == ~Aborted /\ clear

NextImport == DoImportFile \/ ImportMissingFile \/ DoImportClear

\* the console program's buffer filled by file imports
SpecImport == InitApp /\ [][NextImport]_vars

\* ===================================================================== claims
IsSorted(s) == \A i \in 1 .. Len(s) - 1 : s[i] <= s[i + 1]

\* number of elements of s equal to v
Occ(s, v) == Cardinality({i \in 1 .. Len(s) : s[i] = v})

\* s without its elements equal to v
Without(s, v) == LET keep(e) == e # v IN SelectSeq(s, keep)

\* 0-based index of the first element of s that is >= x, Len(s) if none
FirstGE(s, x) ==
    LET ge == {i \in 1 .. Len(s) : s[i] >= x}
    IN  IF ge = {} THEN Len(s)
        ELSE (CHOOSE i \in ge : \A j \in ge : i <= j) - 1

\* s with x put at 0-based index p
WithAt(s, p, x) ==
    [i \in 1 .. Len(s) + 1 |->
        IF i - 1 < p THEN s[i] ELSE IF i - 1 = p THEN x ELSE s[i - 1]]

\* C1: after any sequence of insert, eraseValue, eraseAt and clear calls the
\* active elements are in non-decreasing order and size() <= capacity().
C1_SortedWithinCapacity ==
    /\ IsSorted(Elems(_data, _used))
    /\ _used <= _cap

\* an erase has just closed a gap inside a buffer that holds distinct values
C1_Witness ==
    /\ last.op = "eraseAt"
    /\ last.idx = 1
    /\ _used = 3
    /\ _data[0] < _data[1]
    /\ _data[1] < _data[2]

\* C2: insert(x) puts x at the first index whose value is >= x (size if none),
\* size grows by exactly 1 and the old elements keep their relative order.
C2_InsertAtLowerBound ==
    [][last'.op = "insert" =>
          LET old == Elems(_data, _used)
              x   == last'.x
          IN  /\ last'.pos = FirstGE(old, x)
              /\ _used' = _used + 1
              /\ Elems(_data', _used') = WithAt(old, last'.pos, x)]_vars

\* x was inserted in the middle, in front of an element equal to it
C2_Witness ==
    /\ last.op = "insert"
    /\ _used >= 3
    /\ last.pos = 1
    /\ _data[0] < last.x
    /\ _data[2] = last.x

\* C3: eraseValue(v, count) removes exactly min(count, occurrences of v)
\* elements equal to v and returns that number; the other elements are kept
\* in order; v absent: returns 0, nothing changes; count >= size removes all.
C3_EraseValueRemovesMin ==
    [][last'.op = "eraseValue" =>
          LET old == Elems(_data, _used)
              new == Elems(_data', _used')
              v   == last'.v
              k   == Min2(last'.count, Occ(old, v))
          IN  /\ last'.removed = k
              /\ _used' = _used - k
              /\ Occ(new, v) = Occ(old, v) - k
              /\ Without(new, v) = Without(old, v)
              /\ (Occ(old, v) = 0 => last'.removed = 0 /\ new = old)
              /\ (last'.count >= _used => Occ(new, v) = 0)]_vars

\* a bounded erase left one occurrence of v behind, between other values
C3_Witness ==
    /\ last.op = "eraseValue"
    /\ last.count = 2
    /\ last.removed = 2
    /\ _used = 2
    /\ _data[0] = last.v
    /\ _data[1] > last.v

\* the CLI's erase of all occurrences removed several of them
C3_WitnessAll ==
    /\ last.op = "eraseValue"
    /\ last.count = SIZE_MAX
    /\ last.removed >= 3

\* C4: an insert that finds the buffer full makes the capacity
\* max(8, 2 * old capacity) and keeps the existing elements in order,
\* however the buffer was constructed.
C4_GrowthIsMaxOf8AndDouble ==
    [][(last'.op = "insert" /\ _used = _cap) =>
          /\ _cap' = Max2(8, 2 * _cap)
          /\ \E p \in 0 .. _used :
                 Elems(_data', _used') = WithAt(Elems(_data, _used), p, last'.x)]_vars
\* ------------------------------------------------------- statistics claims
StatOps ==
    {"min", "max", "range", "sum", "mean", "median", "modes", "variance", "stdev",
     "midrange", "quartiles", "iqr", "outliers", "sumSquares", "meanAbsDeviation",
     "rms", "sem", "skewness", "kurtosis", "kurtosisExcess",
     "coefficientOfVariation", "relativeStdDeviation", "frequencyTable"}
ReportOps == {"printAll", "writeAllToFile"}
CVOps == {"coefficientOfVariation", "relativeStdDeviation"}

\* the latest call was a statistic or a report; no modifier ran since, so it was
\* made on the buffer of this state
StatCalled == last.op \in StatOps \cup ReportOps

\* the sample flag of the latest call (statistics without one: FALSE)
SampleArg == IF Len(last.args) >= 1 THEN last.args[1] ELSE FALSE

\* the sum of the stored values; the mean is 0 exactly when it is 0
RECURSIVE SeqSum(_)
SeqSum(s) == IF s = <<>> THEN 0 ELSE Head(s) + SeqSum(Tail(s))
StoredSum == SeqSum(Elems(_data, _used))

\* the minimum sizes the specification gives (section 4.2)
MinSize(op, sample) ==
    CASE op \in {"variance", "stdev", "sem"} -> (IF sample THEN 2 ELSE 1)
      [] op \in {"quartiles", "iqr", "outliers"} -> 2
      [] op = "skewness" -> (IF sample THEN 3 ELSE 1)
      [] op \in {"kurtosis", "kurtosisExcess"} -> 4
      [] OTHER -> 1

IsSizeError(o) ==
    \/ o.kind = "DatasetEmptyException"
    \/ o.kind = "InsufficientDataException" /\ o.need > 0

\* C5: on a dataset of size 0 every statistic, in either mode, and both report
\* operations raise the empty-dataset error, whatever their own minimum is.
C5_EmptyRaisesDatasetEmpty ==
    (StatCalled /\ _used = 0) => last.outcome = DatasetEmpty

\* a statistic with minimum 4 was called on a buffer emptied after use
C5_Witness ==
    /\ last.op = "kurtosisExcess"
    /\ _used = 0
    /\ _cap > 0

\* C6: a statistic called with 1 <= size < its minimum raises the
\* insufficient-data error, whose message names the statistic that was called
\* and its minimum.
C6_InsufficientNamesCalledStatistic ==
    (last.op \in StatOps /\ 1 <= _used /\ _used < MinSize(last.op, SampleArg)) =>
        /\ last.outcome.kind = "InsufficientDataException"
        /\ LabelOwner(last.outcome.what) = last.op
        /\ last.outcome.need = MinSize(last.op, SampleArg)

\* C7: coefficientOfVariation and relativeStdDeviation have minimum size 1: with
\* size >= 1 and mean # 0 they return stdev(mode) / mean (resp. 100 times that)
\* in both modes.
C7_CoefficientOfVariationFromSizeOne ==
    (last.op \in CVOps /\ _used >= 1 /\ StoredSum # 0) =>
        /\ IsValue(last.outcome)
        /\ LET cv == Quot(stdev(_data, _used, SampleArg).val, mean(_data, _used).val)
           IN  last.outcome.val =
                   (IF last.op = "relativeStdDeviation" THEN Prod(Dbl(100), cv) ELSE cv)

\* C8: with a non-empty dataset whose mean is exactly 0 the two statistics raise
\* an error of a kind of its own, neither empty-dataset nor insufficient-data.
C8_ZeroMeanRaisesOwnErrorKind ==
    (last.op \in CVOps /\ _used >= 1 /\ StoredSum = 0) =>
        /\ ~IsValue(last.outcome)
        /\ last.outcome.kind # "DatasetEmptyException"
        /\ last.outcome.kind # "InsufficientDataException"

\* the whole report was written: one line per statement of printAll
CompleteReport == Len(last.out) = Len(reportItems(_data, _used, SampleArg))

\* C9: rendering needs only size >= 1: printAll and writeAllToFile write the
\* complete report on every non-empty dataset without a size error, raise the
\* empty-dataset error on size 0; writeAllToFile returns false when the file
\* cannot be opened and true after the complete report.
C9_RenderingNeedsOnlySizeOne ==
    (last.op \in ReportOps) =>
        /\ _used = 0 => last.outcome = DatasetEmpty
        /\ (_used >= 1 /\ last.op = "printAll") =>
               ~IsSizeError(last.outcome) /\ CompleteReport
        /\ (_used >= 1 /\ last.op = "writeAllToFile" /\ last.args[2]) =>
               ~IsSizeError(last.outcome) /\ CompleteReport /\ last.outcome = Value(TRUE)
        /\ (_used >= 1 /\ last.op = "writeAllToFile" /\ ~last.args[2]) =>
               last.outcome = Value(FALSE)

C11_QuartilesOrderedWithinRange ==
    (last.op = "quartiles" /\ _used >= 2) =>
        /\ last.outcome.kind = "value"
        /\ RLe(last.outcome.val[1], last.outcome.val[2])
        /\ RLe(last.outcome.val[2], last.outcome.val[3])
        /\ RLe(min(_data, _used).val, last.outcome.val[1])
        /\ RLe(last.outcome.val[3], max(_data, _used).val)

\* quartiles() of four elements with Q1 < Q2 < Q3, Q1 above the minimum
C11_Witness ==
    /\ last.op = "quartiles"
    /\ _used = 4
    /\ IsValue(last.outcome)
    /\ RLt(last.outcome.val[1], last.outcome.val[2])
    /\ RLt(last.outcome.val[2], last.outcome.val[3])
    /\ RLt(Dbl(_data[0]), last.outcome.val[1])

\* the active elements of the first and of the second object
ThisElems == Elems(_data, _used)
OtherElems == Elems(OtherData, other.used)

ThisModifiers == {"insert", "eraseValue", "eraseAt", "clear"}
OtherModifiers == {"other.insert", "other.eraseValue", "other.eraseAt", "other.clear"}

\* C12: a copy made by the copy constructor or by copy assignment has the
\* elements and the size of its source (an empty source that never allocated
\* included, and a self-assignment changing nothing), and from then on a
\* modifier called on one object leaves the elements, the size and the
\* capacity of the other object as they were.
C12_CopyIsIndependent ==
    [][/\ (\/ last'.op = "copy"
           \/ (last'.op = "assign" /\ last'.to = "other" /\ last'.from = "this")) =>
              /\ other'.alive
              /\ OtherElems' = ThisElems
              /\ other'.used = _used
              /\ ThisElems' = ThisElems /\ _used' = _used /\ _cap' = _cap
       /\ (last'.op = "assign" /\ last'.to = "this" /\ last'.from = "other") =>
              /\ ThisElems' = OtherElems
              /\ _used' = other.used
              /\ OtherElems' = OtherElems
              /\ other'.used = other.used /\ other'.cap = other.cap
       /\ (last'.op = "assign" /\ last'.to = last'.from) =>
              /\ ThisElems' = ThisElems /\ _used' = _used /\ _cap' = _cap
              /\ OtherElems' = OtherElems
              /\ other'.used = other.used /\ other'.cap = other.cap
       /\ (last'.op \in ThisModifiers /\ other.alive) =>
              /\ OtherElems' = OtherElems
              /\ other'.used = other.used /\ other'.cap = other.cap
       /\ last'.op \in OtherModifiers =>
              /\ ThisElems' = ThisElems /\ _used' = _used /\ _cap' = _cap]_vars

\* the copy of a one-element buffer keeps its element and its capacity of 1
\* after the source grew to a capacity of 2 by a second insert
C12_Witness ==
    /\ other.alive
    /\ other.used = 1
    /\ other.cap = 1
    /\ OtherElems = <<0>>
    /\ ThisElems = <<0, 1>>
    /\ _cap = 2
    /\ last.op = "insert"

\* the counts of a frequency table, in table order
Counts(ft) == [k \in 1 .. Len(ft) |-> ft[k][2]]

\* C13: on a non-empty buffer frequencyTable() lists the values in strictly
\* ascending order, lists every stored value, pairs each value with the number
\* of its occurrences in the buffer, and its counts add up to size().
C13_FrequencyTableCountsEveryValue ==
    (last.op = "frequencyTable" /\ _used >= 1) =>
        /\ IsValue(last.outcome)
        /\ \A k \in 1 .. Len(last.outcome.val) - 1 :
               last.outcome.val[k][1] < last.outcome.val[k + 1][1]
        /\ \A k \in 1 .. Len(last.outcome.val) :
               last.outcome.val[k][2] = Occ(ThisElems, last.outcome.val[k][1])
        /\ \A i \in 1 .. _used :
               \E k \in 1 .. Len(last.outcome.val) : last.outcome.val[k][1] = ThisElems[i]
        /\ SeqSum(Counts(last.outcome.val)) = _used

\* a table of three rows, one of them for a value stored twice
C13_Witness ==
    /\ last.op = "frequencyTable"
    /\ _used = 4
    /\ IsValue(last.outcome)
    /\ Len(last.outcome.val) = 3
    /\ \E k \in 1 .. 3 : last.outcome.val[k][2] = 2

\* 3(n-1)^2 / ((n-2)(n-3))
ExcessShift(n) == Rat(3 * (n - 1) * (n - 1), (n - 2) * (n - 3))

AllEqual == \A i \in 0 .. _used - 1 : _data[i] = _data[0]

\* C14 as stated: on every buffer of n >= 4 elements, all-equal ones included,
\* kurtosisExcess() is kurtosis() minus 3(n-1)^2 / ((n-2)(n-3)).
C14_ExcessIsKurtosisMinusShift ==
    (last.op = "kurtosisExcess" /\ _used >= 4) =>
        /\ IsValue(last.outcome)
        /\ last.outcome.val = RSub(kurtosis(_data, _used).val, ExcessShift(_used))

\* C14 amended: on a buffer of n >= 4 elements that are not all equal,
\* kurtosisExcess() is kurtosis() minus 3(n-1)^2 / ((n-2)(n-3)); when all the
\* elements are equal (s = 0) kurtosisExcess() is 0, as kurtosis() is.
C14_ExcessIsKurtosisMinusShiftUnlessFlat ==
    (last.op = "kurtosisExcess" /\ _used >= 4) =>
        /\ IsValue(last.outcome)
        /\ ~AllEqual =>
               last.outcome.val = RSub(kurtosis(_data, _used).val, ExcessShift(_used))
        /\ AllEqual =>
               (last.outcome.val = Zero /\ kurtosis(_data, _used).val = Zero)

\* kurtosisExcess() of four elements that are not all equal
C14_Witness ==
    /\ last.op = "kurtosisExcess"
    /\ _used = 4
    /\ ~AllEqual
    /\ IsValue(last.outcome)
    /\ last.outcome.val # Zero

\* the median of a non-empty ascending sequence: the middle element of an odd
\* length, the mean of the two middle elements of an even one
SeqMedian(s) ==
    IF Len(s) % 2 = 1 THEN Dbl(s[(Len(s) + 1) \div 2])
    ELSE Rat(s[Len(s) \div 2] + s[Len(s) \div 2 + 1], 2)

\* the Tukey halves of an ascending sequence of n >= 2 elements, m = n / 2:
\* the first m elements, and the elements after the first m, the median
\* element of an odd n left out
LowerHalf(s) == SubSeq(s, 1, Len(s) \div 2)
UpperHalf(s) ==
    SubSeq(s, IF Len(s) % 2 = 0 THEN Len(s) \div 2 + 1 ELSE Len(s) \div 2 + 2, Len(s))

\* C15: for every n >= 2 quartiles() returns the median of the lower Tukey
\* half as Q1, the median of the whole dataset as Q2 and the median of the
\* upper Tukey half as Q3, with no interpolation.
C15_QuartilesFollowTukeySplit ==
    (last.op = "quartiles" /\ _used >= 2) =>
        /\ IsValue(last.outcome)
        /\ last.outcome.val = <<SeqMedian(LowerHalf(ThisElems)),
                                SeqMedian(ThisElems),
                                SeqMedian(UpperHalf(ThisElems))>>

\* quartiles() of three distinct elements: the median element is in neither half
C15_Witness ==
    /\ last.op = "quartiles"
    /\ ThisElems = <<0 - 1, 0, 1>>
    /\ last.outcome = Value(<<Dbl(0 - 1), Dbl(0), Dbl(1)>>)

\* the stored values and the largest number of occurrences of one of them
StoredValues == {ThisElems[i] : i \in 1 .. _used}
MaxOcc == CHOOSE c \in 1 .. _used : /\ \E v \in StoredValues : Occ(ThisElems, v) = c
                                    /\ \A v \in StoredValues : Occ(ThisElems, v) <= c

\* C16: on a non-empty buffer modes() returns, ascending and without repeats,
\* exactly the values that occur as often as the most frequent one when that
\* is more than once, and the empty list when every value occurs once.
C16_ModesAreTheMostFrequentValues ==
    (last.op = "modes" /\ _used >= 1) =>
        /\ IsValue(last.outcome)
        /\ \A k \in 1 .. Len(last.outcome.val) - 1 :
               last.outcome.val[k] < last.outcome.val[k + 1]
        /\ MaxOcc > 1 =>
               {last.outcome.val[k] : k \in 1 .. Len(last.outcome.val)} =
                   {v \in StoredValues : Occ(ThisElems, v) = MaxOcc}
        /\ MaxOcc = 1 => last.outcome.val = <<>>

\* four elements of which two values tie for the most occurrences
C16_Witness ==
    /\ last.op = "modes"
    /\ _used = 4
    /\ IsValue(last.outcome)
    /\ Len(last.outcome.val) = 2

\* a token that is a finite number and nothing else
WellFormed(token) == token.lead = "number" /\ ~token.rest

\* the values of the well-formed tokens of a file, in file order
RECURSIVE WellFormedValues(_)
WellFormedValues(tokens) ==
    IF tokens = <<>> THEN <<>>
    ELSE (IF WellFormed(Head(tokens)) THEN <<Finite(Head(tokens).v)>> ELSE <<>>)
             \o WellFormedValues(Tail(tokens))

\* C17: a file import never aborts, calls insert with finite values only and
\* exactly once for each token that is a finite number (text, a number
\* followed by garbage, inf, nan and out-of-range tokens are skipped), and
\* reports the number of values it inserted.
C17_ImportSkipsWhatIsNotAFiniteNumber ==
    last.op = "import" =>
        /\ last.outcome.kind = "value"
        /\ \A k \in 1 .. Len(last.calls) : last.calls[k].cls = "finite"
        /\ last.calls = WellFormedValues(last.tokens)
        /\ last.outcome.val = Len(last.calls)
====
